---- MODULE Spec2Model ----
(***************************************************************************)
(* Frame-resource pipelining and CPU/GPU synchronisation of                *)
(* TreeBillboardsApp (Castle.cpp).                                         *)
(*                                                                         *)
(* The CPU thread runs Update then Draw once per frame; the GPU consumes   *)
(* the command queue asynchronously and in FIFO order.  One frame of the   *)
(* CPU is a fixed chain of steps (pc); the GPU step interleaves freely     *)
(* with them.                                                              *)
(*                                                                         *)
(* Abstractions: a 4x4 matrix is kept on the four entries the code moves   *)
(* (row 3 / column 3 of the first two axes); texture offsets are integers  *)
(* in units of 0.1, one timer tick is 5 s, so tu advances 5 and tv 1 per   *)
(* tick and 1.0f is 10.                                                    *)
(***************************************************************************)
EXTENDS Integers, Sequences, FiniteSets, TLC

(* ------------------------------ bounds -------------------------------- *)
MaxFrames == 5          \* frames the CPU starts
MaxInitFence == 1       \* largest mCurrentFence left by Initialize
MaxDt == 2              \* largest timer delta, in ticks
NumRitems == 3          \* size of mAllRitems in the model
NumMats == 2            \* size of mMaterials in the model

(* ------------------------- program constants -------------------------- *)
gNumFrameResources == 3
WaterMat == 1
TuRate == 5
TvRate == 1
TexOne == 10

Slots == 0 .. (gNumFrameResources - 1)
RItems == 1 .. NumRitems            \* positions in mAllRitems
Mats == 0 .. (NumMats - 1)          \* materials, named by MatCBIndex
DeltaTimes == 1 .. MaxDt

\* Constant-buffer index of the render item at position e of mAllRitems.
ObjCBIndex(e) == NumRitems - e
MatCBIndex(m) == m
ObjIdx == 0 .. (NumRitems - 1)
MatIdx == 0 .. (NumMats - 1)

\* ObjCBIndex of the 21 render items of the scene, in the order of mAllRitems
\* (BuildRenderItems: the walls, the towers, then grid2, pentagon, kite, ramp,
\* grid, diamond, pedestal, waves, tree sprites).
mAllRitemsObjCBIndex ==
  <<5, 6, 7, 8, 10, 11, 12, 13, 14, 15, 16, 17, 20, 19, 18, 9, 4, 3, 2, 0, 1>>

\* MatCBIndex of the 13 materials of the scene, in the order of BuildMaterials
\* (grass0, water, wirefence, treeSprites, bricks0, stone0, tile0, wood0, ice0,
\* gate0, roof0, metal0, bricks2).
mMaterialsMatCBIndex == <<0, 1, 2, 12, 3, 4, 5, 6, 7, 8, 9, 10, 11>>

\* BuildRenderItems: the waves item has ObjCBIndex 0, the water material and
\* the transparent layer; the tree sprites have ObjCBIndex 1 and their own
\* layer; every other item is opaque.  No item is put in the alpha-tested
\* layer (the box is commented out).
RenderLayer(e) ==
  IF ObjCBIndex(e) = 0 THEN "Transparent"
  ELSE IF ObjCBIndex(e) = 1 THEN "AlphaTestedTreeSprites"
  ELSE "Opaque"

\* Material of a render item (RenderItem::Mat), named by its MatCBIndex.
RitemMat(e) ==
  IF ObjCBIndex(e) = 0 THEN WaterMat
  ELSE IF ObjCBIndex(e) % NumMats = WaterMat THEN 0
  ELSE ObjCBIndex(e) % NumMats

\* The render items in the order of their creation in BuildRenderItems, which
\* is the order in which they are pushed to their layer.
CreationOrder == [i \in 1 .. NumRitems |-> CHOOSE e \in RItems : ObjCBIndex(e) = i - 1]

\* mRitemLayer[layer].
mRitemLayer(layer) == SelectSeq(CreationOrder, LAMBDA e : RenderLayer(e) = layer)

(* ------------------------------ matrices ------------------------------ *)
MEntries == {<<3, 0>>, <<3, 1>>, <<0, 3>>, <<1, 3>>}
Identity4x4 == [p \in MEntries |-> 0]
XMMatrixTranspose(m) == [p \in MEntries |-> m[<<p[2], p[1]>>]]

\* Logical state of a render item; it is set in BuildRenderItems and never
\* changed afterwards.
World(e) == [p \in MEntries |-> IF p = <<3, 0>> THEN e ELSE 0]
TexTransform(e) == Identity4x4

VARIABLES
  pc,                       \* position of the CPU thread in the frame
  mCurrFrameResourceIndex,
  mCurrFrameResource,       \* slot pointed to, "nullptr" before the first Update
  Fence,                    \* FrameResource::Fence of each slot
  mCurrentFence,
  completedValue,           \* mFence->GetCompletedValue()
  cmdQueue,                 \* everything submitted to mCommandQueue, in order
  gpuPos,                   \* number of queue entries the GPU has finished
  waitTarget,               \* fence value the blocked CPU waits for
  deltaTime,                \* gt.DeltaTime() of the frame
  totalTime,                \* gt.TotalTime()
  ritemNumFramesDirty,      \* RenderItem::NumFramesDirty
  matNumFramesDirty,        \* Material::NumFramesDirty
  MatTransform,             \* Material::MatTransform
  objectCB,                 \* ObjectCB of each slot
  materialCB,               \* MaterialCB of each slot
  passCB,                   \* PassCB of each slot (entry 0)
  wavesVB,                  \* WavesVB of each slot
  wavesGeoVB,               \* mWavesRitem->Geo->VertexBufferGPU
  frameCount,               \* frames whose Draw has returned
  slotLog,                  \* history: slot used by each frame started
  stamps,                   \* history: fence values stamped, in order
  objWrites,                \* history: slots written for each render item
  matWrites,                \* history: slots written for each material
  blockedFrames,            \* history: frames whose Update blocked
  mCommandList,             \* commands recorded by the last Draw
  markLog                   \* history: writes made for a material when last marked

vars == <<pc, mCurrFrameResourceIndex, mCurrFrameResource, Fence,
          mCurrentFence, completedValue, cmdQueue, gpuPos, waitTarget,
          deltaTime, totalTime, ritemNumFramesDirty, matNumFramesDirty,
          MatTransform, objectCB, materialCB, passCB, wavesVB, wavesGeoVB,
          frameCount, slotLog, stamps, objWrites, matWrites, blockedFrames,
          mCommandList, markLog>>

syncVars == <<Fence, mCurrentFence, completedValue, cmdQueue, gpuPos>>
ringVars == <<mCurrFrameResourceIndex, mCurrFrameResource>>
timeVars == <<deltaTime, totalTime>>
dirtyVars == <<ritemNumFramesDirty, matNumFramesDirty>>
bufVars == <<objectCB, materialCB, passCB, wavesVB, wavesGeoVB>>
histVars == <<frameCount, slotLog, stamps, objWrites, matWrites, blockedFrames,
              markLog>>

ObjectConstants(e) ==
  [World |-> XMMatrixTranspose(World(e)),
   TexTransform |-> XMMatrixTranspose(TexTransform(e))]

MaterialConstants(mt, m) ==
  [Shading |-> m, MatTransform |-> XMMatrixTranspose(mt[m])]

\* An element of an upload buffer that CopyData has not written yet.
Unwritten == [Unwritten |-> TRUE]

(* ------------------------------- Init --------------------------------- *)
\* State when Initialize returns, the sizes of the constant regions aside:
\* the queue has been flushed, every entity carries NumFramesDirty =
\* gNumFrameResources, no slot has been submitted.
Built ==
  /\ pc = "Idle"
  /\ mCurrFrameResourceIndex = 0
  /\ mCurrFrameResource = "nullptr"
  /\ Fence = [s \in Slots |-> 0]
  /\ mCurrentFence \in 1 .. MaxInitFence
  /\ completedValue = mCurrentFence
  /\ cmdQueue = <<>>
  /\ gpuPos = 0
  /\ waitTarget = 0
  /\ deltaTime = 0
  /\ totalTime = 0
  /\ ritemNumFramesDirty = [e \in RItems |-> gNumFrameResources]
  /\ matNumFramesDirty = [m \in Mats |-> gNumFrameResources]
  /\ MatTransform = [m \in Mats |-> Identity4x4]
  /\ passCB = [s \in Slots |-> Unwritten]
  /\ wavesVB = [s \in Slots |-> Unwritten]
  /\ wavesGeoVB = [Buffer |-> "nullptr"]
  /\ frameCount = 0
  /\ slotLog = <<>>
  /\ stamps = <<>>
  /\ objWrites = [e \in RItems |-> <<>>]
  /\ matWrites = [m \in Mats |-> <<>>]
  /\ blockedFrames = {}
  /\ mCommandList = <<>>
  /\ markLog = [m \in Mats |-> 0]

\* A slot's ObjectCB and MaterialCB with the given numbers of entries.
FrameResources(objCount, matCount) ==
  /\ objectCB = [s \in Slots |-> [i \in 0 .. (objCount - 1) |-> Unwritten]]
  /\ materialCB = [s \in Slots |-> [i \in 0 .. (matCount - 1) |-> Unwritten]]

\* Variant: the frame resources are built before the scene.
InitializeOrder_ResourcesFirst ==
  <<"BuildFrameResources", "BuildMaterials", "BuildRenderItems">>

\* Initialize, lines 212-214: the order of the three build calls.
InitializeOrder == <<"BuildMaterials", "BuildRenderItems", "BuildFrameResources">>

\* Place of a build call in the order.
Position(order, name) == CHOOSE i \in 1 .. Len(order) : order[i] = name

\* mAllRitems.size() and mMaterials.size() as BuildFrameResources sees them
\* (line 1467): the containers are empty until their build call has run.
ProvisionedObjects(order) ==
  IF Position(order, "BuildRenderItems") < Position(order, "BuildFrameResources")
    THEN NumRitems ELSE 0
ProvisionedMaterials(order) ==
  IF Position(order, "BuildMaterials") < Position(order, "BuildFrameResources")
    THEN NumMats ELSE 0

\* BuildFrameResources runs after BuildMaterials and BuildRenderItems and sizes
\* the regions by mAllRitems.size() and mMaterials.size().
Init ==
  /\ Built
  /\ FrameResources(ProvisionedObjects(InitializeOrder),
                    ProvisionedMaterials(InitializeOrder))

\* A scene in which the regions may have been sized before the last render
\* item or the last material was created.
InitAnySize ==
  /\ Built
  /\ \E objCount \in {NumRitems - 1, NumRitems} :
       \E matCount \in {NumMats - 1, NumMats} :
         FrameResources(objCount, matCount)

(* --------------------------- Update (CPU) ----------------------------- *)
\* Variant: the ring advances by two.
NextIndex_Skip(i) == (i + 2) % gNumFrameResources

NextIndex(i) == (i + 1) % gNumFrameResources

\* Variant: Update goes to the updates without looking at the fence.
UpdateBegin_NoCheck ==
  /\ pc = "Idle"
  /\ frameCount < MaxFrames
  /\ \E dt \in DeltaTimes :
       /\ deltaTime' = dt
       /\ totalTime' = totalTime + dt
  /\ mCurrFrameResourceIndex' = NextIndex(mCurrFrameResourceIndex)
  /\ mCurrFrameResource' = mCurrFrameResourceIndex'
  /\ slotLog' = Append(slotLog, mCurrFrameResourceIndex')
  /\ pc' = "Animate"
  /\ UNCHANGED <<mCommandList, syncVars, waitTarget, dirtyVars, MatTransform, bufVars,
                 frameCount, stamps, objWrites, matWrites, blockedFrames, markLog>>

\* Update, lines 239-244: the timer has ticked, the ring advances.
UpdateBegin ==
  /\ pc = "Idle"
  /\ frameCount < MaxFrames
  /\ \E dt \in DeltaTimes :
       /\ deltaTime' = dt
       /\ totalTime' = totalTime + dt
  /\ mCurrFrameResourceIndex' = NextIndex(mCurrFrameResourceIndex)
  /\ mCurrFrameResource' = mCurrFrameResourceIndex'
  /\ slotLog' = Append(slotLog, mCurrFrameResourceIndex')
  /\ pc' = "Check"
  /\ UNCHANGED <<mCommandList, syncVars, waitTarget, dirtyVars, MatTransform, bufVars,
                 frameCount, stamps, objWrites, matWrites, blockedFrames, markLog>>

\* Variant: the stamp is never waited for.
MustWait_Never(stamp, completed) == FALSE

\* Variant: the comparison is <= instead of <.
MustWait_LE(stamp, completed) == stamp /= 0 /\ completed <= stamp

\* The condition of line 248.
MustWait(stamp, completed) == stamp /= 0 /\ completed < stamp

\* Update, lines 248-251: test the slot's stamp; when it is unretired either
\* SetEventOnCompletion fails (ThrowIfFailed ends the process) or the thread
\* goes to sleep in WaitForSingleObject.
FenceCheck ==
  /\ pc = "Check"
  /\ IF MustWait(Fence[mCurrFrameResource], completedValue)
       THEN \/ /\ pc' = "Wait"
               /\ waitTarget' = Fence[mCurrFrameResource]
               /\ blockedFrames' = blockedFrames \cup {Len(slotLog)}
            \/ /\ pc' = "Terminated"
               /\ UNCHANGED <<waitTarget, blockedFrames>>
       ELSE /\ pc' = "Animate"
            /\ UNCHANGED <<waitTarget, blockedFrames>>
  /\ UNCHANGED <<mCommandList, syncVars, ringVars, timeVars, dirtyVars, MatTransform, bufVars,
                 frameCount, slotLog, stamps, objWrites, matWrites, markLog>>

\* Variant: the thread does not sleep until the event fires.
WaitDone_NoGuard ==
  /\ pc = "Wait"
  /\ pc' = "Animate"
  /\ UNCHANGED <<mCommandList, syncVars, ringVars, waitTarget, timeVars, dirtyVars,
                 MatTransform, bufVars, histVars>>

\* Update, lines 252-253: the event fires once the fence reached the target.
WaitDone ==
  /\ pc = "Wait"
  /\ completedValue >= waitTarget
  /\ pc' = "Animate"
  /\ UNCHANGED <<mCommandList, syncVars, ringVars, waitTarget, timeVars, dirtyVars,
                 MatTransform, bufVars, histVars>>

Wrap(t) == IF t >= TexOne THEN t - TexOne ELSE t

\* Variant: marking adds gNumFrameResources instead of assigning it.
AnimateMaterials_Accumulate ==
  /\ pc = "Animate"
  /\ LET tu == Wrap(MatTransform[WaterMat][<<3, 0>>] + TuRate * deltaTime)
         tv == Wrap(MatTransform[WaterMat][<<3, 1>>] + TvRate * deltaTime)
     IN MatTransform' = [MatTransform EXCEPT ![WaterMat][<<3, 0>>] = tu,
                                             ![WaterMat][<<3, 1>>] = tv]
  /\ matNumFramesDirty' = [matNumFramesDirty EXCEPT
                             ![WaterMat] = @ + gNumFrameResources]
  /\ markLog' = [markLog EXCEPT ![WaterMat] = Len(matWrites[WaterMat])]
  /\ pc' = "ObjectCBs"
  /\ UNCHANGED <<mCommandList, syncVars, ringVars, waitTarget, timeVars, ritemNumFramesDirty,
                 bufVars,
                 frameCount, slotLog, stamps, objWrites, matWrites, blockedFrames>>

\* Variant: the water material is scrolled but not marked dirty.
AnimateMaterials_NoMark ==
  /\ pc = "Animate"
  /\ LET tu == Wrap(MatTransform[WaterMat][<<3, 0>>] + TuRate * deltaTime)
         tv == Wrap(MatTransform[WaterMat][<<3, 1>>] + TvRate * deltaTime)
     IN MatTransform' = [MatTransform EXCEPT ![WaterMat][<<3, 0>>] = tu,
                                             ![WaterMat][<<3, 1>>] = tv]
  /\ matNumFramesDirty' = matNumFramesDirty
  /\ markLog' = [markLog EXCEPT ![WaterMat] = Len(matWrites[WaterMat])]
  /\ pc' = "ObjectCBs"
  /\ UNCHANGED <<mCommandList, syncVars, ringVars, waitTarget, timeVars, ritemNumFramesDirty,
                 bufVars,
                 frameCount, slotLog, stamps, objWrites, matWrites, blockedFrames>>

\* AnimateMaterials, lines 397-419.
AnimateMaterials ==
  /\ pc = "Animate"
  /\ LET tu == Wrap(MatTransform[WaterMat][<<3, 0>>] + TuRate * deltaTime)
         tv == Wrap(MatTransform[WaterMat][<<3, 1>>] + TvRate * deltaTime)
     IN MatTransform' = [MatTransform EXCEPT ![WaterMat][<<3, 0>>] = tu,
                                             ![WaterMat][<<3, 1>>] = tv]
  /\ matNumFramesDirty' = [matNumFramesDirty EXCEPT ![WaterMat] = gNumFrameResources]
  /\ markLog' = [markLog EXCEPT ![WaterMat] = Len(matWrites[WaterMat])]
  /\ pc' = "ObjectCBs"
  /\ UNCHANGED <<mCommandList, syncVars, ringVars, waitTarget, timeVars, ritemNumFramesDirty,
                 bufVars,
                 frameCount, slotLog, stamps, objWrites, matWrites, blockedFrames>>

\* Variant: CopyData takes any index.
CopyDataInRange_NoCheck(index, count) == TRUE

\* UploadBuffer::CopyData takes element indices below the element count of the
\* buffer; any other index is a capacity violation and raises a fatal error.
CopyDataInRange(index, count) == index >= 0 /\ index < count

\* The render items the loop of UpdateObjectCBs gets through: mAllRitems in
\* order, up to the first one whose CopyData raises.
Processed(bad) == {e \in RItems : \A b \in bad : e < b}

\* The render item (if any) that is dirty and owns constant index i.
DirtyAt(dirty, i) == {e \in RItems : ObjCBIndex(e) = i /\ dirty[e] > 0}

\* Variant: the counter is not decremented after the write.
UpdateObjectCBs_NoDecrement ==
  /\ pc = "ObjectCBs"
  /\ objectCB' = [objectCB EXCEPT ![mCurrFrameResource] =
        [i \in ObjIdx |->
           IF DirtyAt(ritemNumFramesDirty, i) /= {}
             THEN ObjectConstants(CHOOSE e \in DirtyAt(ritemNumFramesDirty, i) : TRUE)
             ELSE @[i]]]
  /\ ritemNumFramesDirty' = ritemNumFramesDirty
  /\ objWrites' = [e \in RItems |->
        IF ritemNumFramesDirty[e] > 0 THEN Append(objWrites[e], mCurrFrameResource)
                                      ELSE objWrites[e]]
  /\ pc' = "MaterialCBs"
  /\ UNCHANGED <<mCommandList, syncVars, ringVars, waitTarget, timeVars, matNumFramesDirty,
                 MatTransform, materialCB, passCB, wavesVB, wavesGeoVB,
                 frameCount, slotLog, stamps, matWrites, blockedFrames, markLog>>

\* Variant: the constants are copied into every frame resource at once.
UpdateObjectCBs_AllSlots ==
  /\ pc = "ObjectCBs"
  /\ LET count == Cardinality(DOMAIN objectCB[mCurrFrameResource])
         bad == {e \in RItems : /\ ritemNumFramesDirty[e] > 0
                                /\ ~CopyDataInRange(ObjCBIndex(e), count)}
         written == {e \in Processed(bad) : ritemNumFramesDirty[e] > 0}
     IN /\ objectCB' = [s \in Slots |->
              [i \in DOMAIN objectCB[s] |->
                 IF DirtyAt(ritemNumFramesDirty, i) \cap written /= {}
                   THEN ObjectConstants(
                          CHOOSE e \in DirtyAt(ritemNumFramesDirty, i) \cap written : TRUE)
                   ELSE objectCB[s][i]]]
        /\ ritemNumFramesDirty' = [e \in RItems |->
              IF e \in written THEN ritemNumFramesDirty[e] - 1
                               ELSE ritemNumFramesDirty[e]]
        /\ objWrites' = [e \in RItems |->
              IF e \in written THEN Append(objWrites[e], mCurrFrameResource)
                               ELSE objWrites[e]]
        /\ pc' = IF bad = {} THEN "MaterialCBs" ELSE "ConfigError"
  /\ UNCHANGED <<mCommandList, syncVars, ringVars, waitTarget, timeVars, matNumFramesDirty,
                 MatTransform, materialCB, passCB, wavesVB, wavesGeoVB,
                 frameCount, slotLog, stamps, matWrites, blockedFrames, markLog>>

\* UpdateObjectCBs, lines 421-443 (the whole loop).
UpdateObjectCBs ==
  /\ pc = "ObjectCBs"
  /\ LET count == Cardinality(DOMAIN objectCB[mCurrFrameResource])
         bad == {e \in RItems : /\ ritemNumFramesDirty[e] > 0
                                /\ ~CopyDataInRange(ObjCBIndex(e), count)}
         written == {e \in Processed(bad) : ritemNumFramesDirty[e] > 0}
     IN /\ objectCB' = [objectCB EXCEPT ![mCurrFrameResource] =
              [i \in DOMAIN @ |->
                 IF DirtyAt(ritemNumFramesDirty, i) \cap written /= {}
                   THEN ObjectConstants(
                          CHOOSE e \in DirtyAt(ritemNumFramesDirty, i) \cap written : TRUE)
                   ELSE @[i]]]
        /\ ritemNumFramesDirty' = [e \in RItems |->
              IF e \in written THEN ritemNumFramesDirty[e] - 1
                               ELSE ritemNumFramesDirty[e]]
        /\ objWrites' = [e \in RItems |->
              IF e \in written THEN Append(objWrites[e], mCurrFrameResource)
                               ELSE objWrites[e]]
        /\ pc' = IF bad = {} THEN "MaterialCBs" ELSE "ConfigError"
  /\ UNCHANGED <<mCommandList, syncVars, ringVars, waitTarget, timeVars, matNumFramesDirty,
                 MatTransform, materialCB, passCB, wavesVB, wavesGeoVB,
                 frameCount, slotLog, stamps, matWrites, blockedFrames, markLog>>

\* Variant: the constants go to the first frame resource, whichever is current.
UpdateMaterialCBs_FirstSlot ==
  /\ pc = "MaterialCBs"
  /\ LET count == Cardinality(DOMAIN materialCB[mCurrFrameResource])
         bad == {m \in Mats : /\ matNumFramesDirty[m] > 0
                              /\ ~CopyDataInRange(MatCBIndex(m), count)}
     IN \E done \in SUBSET (Mats \ bad) :
          /\ bad = {} => done = Mats
          /\ materialCB' = [materialCB EXCEPT ![0] =
                [i \in DOMAIN @ |->
                   IF i \in done /\ matNumFramesDirty[i] > 0
                     THEN MaterialConstants(MatTransform, i)
                     ELSE @[i]]]
          /\ matNumFramesDirty' = [m \in Mats |->
                IF m \in done /\ matNumFramesDirty[m] > 0
                  THEN matNumFramesDirty[m] - 1
                  ELSE matNumFramesDirty[m]]
          /\ matWrites' = [m \in Mats |->
                IF m \in done /\ matNumFramesDirty[m] > 0
                  THEN Append(matWrites[m], mCurrFrameResource)
                  ELSE matWrites[m]]
          /\ pc' = IF bad = {} THEN "PassCB" ELSE "ConfigError"
  /\ UNCHANGED <<mCommandList, syncVars, ringVars, waitTarget, timeVars, ritemNumFramesDirty,
                 MatTransform, objectCB, passCB, wavesVB, wavesGeoVB,
                 frameCount, slotLog, stamps, objWrites, blockedFrames, markLog>>

\* Variant: every material is copied, dirty or not.
UpdateMaterialCBs_NoDirtyTest ==
  /\ pc = "MaterialCBs"
  /\ LET count == Cardinality(DOMAIN materialCB[mCurrFrameResource])
         bad == {m \in Mats : /\ matNumFramesDirty[m] > 0
                              /\ ~CopyDataInRange(MatCBIndex(m), count)}
     IN \E done \in SUBSET (Mats \ bad) :
          /\ bad = {} => done = Mats
          /\ materialCB' = [materialCB EXCEPT ![mCurrFrameResource] =
                [i \in DOMAIN @ |->
                   IF i \in done
                     THEN MaterialConstants(MatTransform, i)
                     ELSE @[i]]]
          /\ matNumFramesDirty' = [m \in Mats |->
                IF m \in done
                  THEN (IF matNumFramesDirty[m] > 0 THEN matNumFramesDirty[m] - 1 ELSE 0)
                  ELSE matNumFramesDirty[m]]
          /\ matWrites' = [m \in Mats |->
                IF m \in done
                  THEN Append(matWrites[m], mCurrFrameResource)
                  ELSE matWrites[m]]
          /\ pc' = IF bad = {} THEN "PassCB" ELSE "ConfigError"
  /\ UNCHANGED <<mCommandList, syncVars, ringVars, waitTarget, timeVars, ritemNumFramesDirty,
                 MatTransform, objectCB, passCB, wavesVB, wavesGeoVB,
                 frameCount, slotLog, stamps, objWrites, blockedFrames, markLog>>

\* UpdateMaterialCBs, lines 445-469 (the whole loop).  mMaterials is an
\* unordered_map: when a CopyData raises, any of the other materials may have
\* been gone through before it.
UpdateMaterialCBs ==
  /\ pc = "MaterialCBs"
  /\ LET count == Cardinality(DOMAIN materialCB[mCurrFrameResource])
         bad == {m \in Mats : /\ matNumFramesDirty[m] > 0
                              /\ ~CopyDataInRange(MatCBIndex(m), count)}
     IN \E done \in SUBSET (Mats \ bad) :
          /\ bad = {} => done = Mats
          /\ materialCB' = [materialCB EXCEPT ![mCurrFrameResource] =
                [i \in DOMAIN @ |->
                   IF i \in done /\ matNumFramesDirty[i] > 0
                     THEN MaterialConstants(MatTransform, i)
                     ELSE @[i]]]
          /\ matNumFramesDirty' = [m \in Mats |->
                IF m \in done /\ matNumFramesDirty[m] > 0
                  THEN matNumFramesDirty[m] - 1
                  ELSE matNumFramesDirty[m]]
          /\ matWrites' = [m \in Mats |->
                IF m \in done /\ matNumFramesDirty[m] > 0
                  THEN Append(matWrites[m], mCurrFrameResource)
                  ELSE matWrites[m]]
          /\ pc' = IF bad = {} THEN "PassCB" ELSE "ConfigError"
  /\ UNCHANGED <<mCommandList, syncVars, ringVars, waitTarget, timeVars, ritemNumFramesDirty,
                 MatTransform, objectCB, passCB, wavesVB, wavesGeoVB,
                 frameCount, slotLog, stamps, objWrites, blockedFrames, markLog>>

\* Variant: the pass block is copied only into a slot that has none yet.
UpdateMainPassCB_IfUnwritten ==
  /\ pc = "PassCB"
  /\ passCB' = [passCB EXCEPT ![mCurrFrameResource] =
                  IF @ = Unwritten
                    THEN [TotalTime |-> totalTime, DeltaTime |-> deltaTime]
                    ELSE @]
  /\ pc' = "Waves"
  /\ UNCHANGED <<mCommandList, syncVars, ringVars, waitTarget, timeVars, dirtyVars,
                 MatTransform, objectCB, materialCB, wavesVB, wavesGeoVB,
                 histVars>>

\* UpdateMainPassCB, lines 471-511: written every frame, no dirty test.
UpdateMainPassCB ==
  /\ pc = "PassCB"
  /\ passCB' = [passCB EXCEPT ![mCurrFrameResource] =
                  [TotalTime |-> totalTime, DeltaTime |-> deltaTime]]
  /\ pc' = "Waves"
  /\ UNCHANGED <<mCommandList, syncVars, ringVars, waitTarget, timeVars, dirtyVars,
                 MatTransform, objectCB, materialCB, wavesVB, wavesGeoVB,
                 histVars>>

\* Variant: the waves geometry keeps the vertex buffer it had.
UpdateWaves_NoRebind ==
  /\ pc = "Waves"
  /\ wavesVB' = [wavesVB EXCEPT ![mCurrFrameResource] = [Solution |-> totalTime]]
  /\ wavesGeoVB' = wavesGeoVB
  /\ pc' = "Record"
  /\ UNCHANGED <<mCommandList, syncVars, ringVars, waitTarget, timeVars, dirtyVars,
                 MatTransform, objectCB, materialCB, passCB, histVars>>

\* UpdateWaves, lines 513-551: the solution of the frame goes to the slot's
\* vertex buffer and the waves geometry is rebound to it.
UpdateWaves ==
  /\ pc = "Waves"
  /\ wavesVB' = [wavesVB EXCEPT ![mCurrFrameResource] = [Solution |-> totalTime]]
  /\ wavesGeoVB' = [Slot |-> mCurrFrameResource]
  /\ pc' = "Record"
  /\ UNCHANGED <<mCommandList, syncVars, ringVars, waitTarget, timeVars, dirtyVars,
                 MatTransform, objectCB, materialCB, passCB, histVars>>

\* Vertex buffer of a render item's geometry: the waves geometry's buffer is
\* the one UpdateWaves bound last, every other geometry has its own static
\* buffer.
VertexBufferGPU(e, wavesBuf) ==
  IF ObjCBIndex(e) = 0 THEN wavesBuf ELSE [Buffer |-> "static"]

\* DrawRenderItems, lines 1842-1872: one draw per item of the layer, in the
\* layer's order, with the object and material regions of slot cur.
DrawRenderItems(layer, cur, wavesBuf) ==
  [i \in 1 .. Len(mRitemLayer(layer)) |->
     LET ri == mRitemLayer(layer)[i]
     IN [cmd |-> "DrawIndexedInstanced", layer |-> layer, item |-> ri,
         vb |-> VertexBufferGPU(ri, wavesBuf),
         objCB |-> [slot |-> cur, index |-> ObjCBIndex(ri)],
         matCB |-> [slot |-> cur, index |-> MatCBIndex(RitemMat(ri))]]]

\* Variant: the transparent layer is drawn first.
LayerOrder_TransparentFirst ==
  <<"Transparent", "Opaque", "AlphaTested", "AlphaTestedTreeSprites">>

\* Draw, lines 297-306: the layers in the order of the calls.
LayerOrder == <<"Opaque", "AlphaTested", "AlphaTestedTreeSprites", "Transparent">>

\* The draws of the layers order[1], order[2], ... one after the other.
RECURSIVE DrawLayers(_, _, _)
DrawLayers(order, cur, wavesBuf) ==
  IF order = <<>> THEN <<>>
  ELSE DrawRenderItems(Head(order), cur, wavesBuf)
         \o DrawLayers(Tail(order), cur, wavesBuf)

(* ---------------------------- Draw (CPU) ------------------------------ *)
\* Draw, lines 265-313: reset the slot's allocator and record the frame.  The
\* two Resets (lines 269, 273) and Close (line 312) are under ThrowIfFailed: the
\* exception leaves Draw before or after the commands have been recorded.
DrawRecord ==
  /\ pc = "Record"
  /\ \/ /\ mCommandList' = <<[cmd |-> "SetPassCBV", slot |-> mCurrFrameResource,
                              entry |-> 0]>>
                            \o DrawLayers(LayerOrder, mCurrFrameResource, wavesGeoVB)
        /\ pc' \in {"Execute", "DrawTerminated"}
     \/ /\ mCommandList' = mCommandList
        /\ pc' = "DrawTerminated"
  /\ UNCHANGED <<syncVars, ringVars, waitTarget, timeVars, dirtyVars,
                 MatTransform, bufVars, histVars>>

\* Draw, lines 315-321: the list goes to the queue; Present is under
\* ThrowIfFailed (line 320).
ExecuteCommandLists ==
  /\ pc = "Execute"
  /\ cmdQueue' = Append(cmdQueue, [type |-> "exec", slot |-> mCurrFrameResource,
                                   value |-> 0])
  /\ pc' \in {"Stamp", "DrawTerminated"}
  /\ UNCHANGED <<mCommandList, Fence, mCurrentFence, completedValue, gpuPos, ringVars,
                 waitTarget, timeVars, dirtyVars, MatTransform, bufVars, histVars>>

\* Variant: the counter is advanced twice.
StampFence_Twice ==
  /\ pc = "Stamp"
  /\ mCurrentFence' = mCurrentFence + 2
  /\ Fence' = [Fence EXCEPT ![mCurrFrameResource] = mCurrentFence']
  /\ stamps' = Append(stamps, mCurrentFence')
  /\ pc' = "Signal"
  /\ UNCHANGED <<mCommandList, completedValue, cmdQueue, gpuPos, ringVars, waitTarget,
                 timeVars, dirtyVars, MatTransform, bufVars, frameCount,
                 slotLog, objWrites, matWrites, blockedFrames, markLog>>

\* Variant: post-increment, the slot gets the value before the increment.
StampFence_PostIncrement ==
  /\ pc = "Stamp"
  /\ mCurrentFence' = mCurrentFence + 1
  /\ Fence' = [Fence EXCEPT ![mCurrFrameResource] = mCurrentFence]
  /\ stamps' = Append(stamps, mCurrentFence)
  /\ pc' = "Signal"
  /\ UNCHANGED <<mCommandList, completedValue, cmdQueue, gpuPos, ringVars, waitTarget,
                 timeVars, dirtyVars, MatTransform, bufVars, frameCount,
                 slotLog, objWrites, matWrites, blockedFrames, markLog>>

\* Draw, line 324.
StampFence ==
  /\ pc = "Stamp"
  /\ mCurrentFence' = mCurrentFence + 1
  /\ Fence' = [Fence EXCEPT ![mCurrFrameResource] = mCurrentFence']
  /\ stamps' = Append(stamps, mCurrentFence')
  /\ pc' = "Signal"
  /\ UNCHANGED <<mCommandList, completedValue, cmdQueue, gpuPos, ringVars, waitTarget,
                 timeVars, dirtyVars, MatTransform, bufVars, frameCount,
                 slotLog, objWrites, matWrites, blockedFrames, markLog>>

\* Variant: Draw drains the queue (the GPU finishes the frame) before it
\* returns.
SignalFence_Flush ==
  /\ pc = "Signal"
  /\ cmdQueue' = Append(cmdQueue, [type |-> "signal", slot |-> mCurrFrameResource,
                                   value |-> mCurrentFence])
  /\ gpuPos' = Len(cmdQueue')
  /\ completedValue' = mCurrentFence
  /\ frameCount' = frameCount + 1
  /\ pc' = "Idle"
  /\ UNCHANGED <<mCommandList, Fence, mCurrentFence, ringVars,
                 waitTarget, timeVars, dirtyVars, MatTransform, bufVars,
                 slotLog, stamps, objWrites, matWrites, blockedFrames, markLog>>

\* Variant: Draw returns without the Signal.
SignalFence_Skip ==
  /\ pc = "Signal"
  /\ cmdQueue' = cmdQueue
  /\ frameCount' = frameCount + 1
  /\ pc' = "Idle"
  /\ UNCHANGED <<mCommandList, Fence, mCurrentFence, completedValue, gpuPos, ringVars,
                 waitTarget, timeVars, dirtyVars, MatTransform, bufVars,
                 slotLog, stamps, objWrites, matWrites, blockedFrames, markLog>>

\* Draw, line 329; Draw returns.
SignalFence ==
  /\ pc = "Signal"
  /\ cmdQueue' = Append(cmdQueue, [type |-> "signal", slot |-> mCurrFrameResource,
                                   value |-> mCurrentFence])
  /\ frameCount' = frameCount + 1
  /\ pc' = "Idle"
  /\ UNCHANGED <<mCommandList, Fence, mCurrentFence, completedValue, gpuPos, ringVars,
                 waitTarget, timeVars, dirtyVars, MatTransform, bufVars,
                 slotLog, stamps, objWrites, matWrites, blockedFrames, markLog>>

(* -------------------------------- GPU --------------------------------- *)
\* Variant: the fence does not move when the GPU reaches a Signal.
GPUStep_NoSignal ==
  /\ gpuPos < Len(cmdQueue)
  /\ gpuPos' = gpuPos + 1
  /\ completedValue' = completedValue
  /\ UNCHANGED <<mCommandList, pc, Fence, mCurrentFence, cmdQueue, ringVars, waitTarget,
                 timeVars, dirtyVars, MatTransform, bufVars, histVars>>

\* The GPU finishes the oldest unfinished queue entry; a Signal entry sets
\* the fence's completed value (comment of lines 326-328).
GPUStep ==
  /\ gpuPos < Len(cmdQueue)
  /\ gpuPos' = gpuPos + 1
  /\ completedValue' = IF cmdQueue[gpuPos + 1].type = "signal"
                         THEN cmdQueue[gpuPos + 1].value
                         ELSE completedValue
  /\ UNCHANGED <<mCommandList, pc, Fence, mCurrentFence, cmdQueue, ringVars, waitTarget,
                 timeVars, dirtyVars, MatTransform, bufVars, histVars>>

\* Update, line 252: WaitForSingleObject reports an error (WAIT_FAILED).  Its
\* return value is not looked at: line 253 closes the handle and Update goes on
\* to line 256.
WaitFailed ==
  /\ pc = "Wait"
  /\ completedValue < waitTarget
  /\ pc' = "Animate"
  /\ UNCHANGED <<mCommandList, syncVars, ringVars, waitTarget, timeVars, dirtyVars,
                 MatTransform, bufVars, histVars>>

\* WinMain, line 169: Run returns between two frames (the window was closed)
\* and theApp goes out of scope.
Quit ==
  /\ pc = "Idle"
  /\ pc' = "Exit"
  /\ UNCHANGED <<mCommandList, syncVars, ringVars, waitTarget, timeVars, dirtyVars,
                 MatTransform, bufVars, histVars>>

\* D3DApp::FlushCommandQueue has returned: the fence has reached the stamp of
\* every slot and the queue is drained.
FlushCommandQueueDone ==
  /\ \A s \in Slots : completedValue >= Fence[s]
  /\ gpuPos = Len(cmdQueue)

\* Variant: the destructor releases without FlushCommandQueue.
Destructor_NoFlush ==
  /\ pc \in {"Exit", "Terminated", "DrawTerminated"}
  /\ pc' = CASE pc = "Exit" -> "Released"
            [] pc = "Terminated" -> "HRFailed"
            [] pc = "DrawTerminated" -> "DrawHRFailed"
  /\ UNCHANGED <<mCommandList, syncVars, ringVars, waitTarget, timeVars, dirtyVars,
                 MatTransform, bufVars, histVars>>

\* ~TreeBillboardsApp, lines 183-187, then the release of the members
\* (mFrameResources and the other buffers).  It runs when theApp goes out of
\* scope: after Run has returned, or while the DxException of Update (line
\* 251) or of Draw unwinds to the handler of lines 171-175 ("HR Failed").
Destructor ==
  /\ pc \in {"Exit", "Terminated", "DrawTerminated"}
  /\ FlushCommandQueueDone
  /\ pc' = CASE pc = "Exit" -> "Released"
            [] pc = "Terminated" -> "HRFailed"
            [] pc = "DrawTerminated" -> "DrawHRFailed"
  /\ UNCHANGED <<mCommandList, syncVars, ringVars, waitTarget, timeVars, dirtyVars,
                 MatTransform, bufVars, histVars>>

\* The steps of one frame (Update, then Draw).
CPUNext ==
  \/ UpdateBegin
  \/ FenceCheck
  \/ WaitDone
  \/ AnimateMaterials
  \/ UpdateObjectCBs
  \/ UpdateMaterialCBs
  \/ UpdateMainPassCB
  \/ UpdateWaves
  \/ DrawRecord
  \/ ExecuteCommandLists
  \/ StampFence
  \/ SignalFence

Next ==
  \/ UpdateBegin
  \/ FenceCheck
  \/ WaitDone
  \/ AnimateMaterials
  \/ UpdateObjectCBs
  \/ UpdateMaterialCBs
  \/ UpdateMainPassCB
  \/ UpdateWaves
  \/ DrawRecord
  \/ ExecuteCommandLists
  \/ StampFence
  \/ SignalFence
  \/ GPUStep
  \/ Quit
  \/ Destructor

Spec == Init /\ [][Next]_vars

\* The program with a CPU thread that keeps running and a GPU that goes on
\* executing what is in its queue.
SpecLive == Init /\ [][Next]_vars /\ WF_vars(CPUNext) /\ WF_vars(GPUStep)

\* The program in an environment where the wait of line 252 can fail.
NextWaitFail ==
  \/ Next
  \/ WaitFailed

SpecWaitFail == Init /\ [][NextWaitFail]_vars

\* The program with frame resources of any provisioned size.
SpecCapacity == InitAnySize /\ [][Next]_vars

(* --------------------------- derived notions -------------------------- *)
\* The CPU owns the current slot and writes its buffers in these positions.
\* Positions outside the frame loop: the exception of Update (line 251) or of
\* Draw in flight, the capacity error, Run returned, members released, the
\* handler of line 173 after either exception.
HaltPCs == {"Terminated", "DrawTerminated", "ConfigError", "Exit", "Released",
            "HRFailed", "DrawHRFailed"}

WritePCs == {"Animate", "ObjectCBs", "MaterialCBs", "PassCB", "Waves", "Record"}

\* Queue entries the GPU has not finished.
Pending == {i \in 1 .. Len(cmdQueue) : i > gpuPos}

\* The GPU still has command lists of slot s to execute.
GpuUses(s) == \E i \in Pending : cmdQueue[i].type = "exec" /\ cmdQueue[i].slot = s

TypeOK ==
  /\ pc \in {"Idle", "Check", "Wait", "Execute", "Stamp", "Signal"}
            \cup WritePCs \cup HaltPCs
  /\ mCurrFrameResourceIndex \in Slots
  /\ gpuPos \in 0 .. Len(cmdQueue)
  /\ frameCount \in 0 .. MaxFrames

Min(a, b) == IF a < b THEN a ELSE b

\* Number of the frame the CPU started last (1 for the first frame).
CurFrame == Len(slotLog)

(* ============================== claims ================================ *)

\* C1: whenever the CPU is at a point of Update or Draw where it writes the
\* current slot's buffers (CopyData into ObjectCB, MaterialCB, PassCB, WavesVB,
\* or CmdListAlloc->Reset), that slot's stamp is 0 or has been reached by the
\* fence's completed value, and the GPU has no unfinished command list of that
\* slot.
C1_NoWriteWhileInFlight ==
  pc \in WritePCs =>
    /\ (Fence[mCurrFrameResource] = 0
          \/ Fence[mCurrFrameResource] <= completedValue)
    /\ ~GpuUses(mCurrFrameResource)

\* The CPU writes a slot it had to wait for.
C1_Witness ==
  /\ pc = "ObjectCBs"
  /\ CurFrame \in blockedFrames
  /\ Fence[mCurrFrameResource] /= 0

\* C2: every Update advances mCurrFrameResourceIndex exactly once, to
\* (i+1) mod 3, and nothing else changes it; the index stays in 0..2;
\* mCurrFrameResource is the slot at that index from the advance to the end of
\* Draw; consecutive frames use consecutive slots of the ring.
C2_IndexAdvance ==
  [][ /\ mCurrFrameResourceIndex' \in 0 .. 2
      /\ (pc = "Idle" /\ pc' = "Check")
           => mCurrFrameResourceIndex' = (mCurrFrameResourceIndex + 1) % 3
      /\ (mCurrFrameResourceIndex' /= mCurrFrameResourceIndex)
           => (pc = "Idle" /\ pc' = "Check")
      /\ (pc' \notin {"Idle", "Exit", "Released"} \/ frameCount' > 0)
           => mCurrFrameResource' = mCurrFrameResourceIndex'
      /\ \A i \in 1 .. (Len(slotLog') - 1) :
           slotLog'[i + 1] = (slotLog'[i] + 1) % 3 ]_vars

\* A frame whose Update blocked is being recorded on the slot of the index.
C2_Witness ==
  /\ pc = "Record"
  /\ CurFrame \in blockedFrames
  /\ mCurrFrameResource = mCurrFrameResourceIndex
  /\ mCurrFrameResourceIndex = 1

\* C3 (as stated): the slots used by frames 1, 2, 3, 4, ... are 0, 1, 2, 0, ...
C3_Original ==
  \A i \in 1 .. Len(slotLog) : slotLog[i] = (i - 1) % gNumFrameResources

\* C3 (amended): the slots used by frames 1, 2, 3, 4, ... are 1, 2, 0, 1, ...,
\* whatever the GPU does.
C3_RingSequence ==
  \A i \in 1 .. Len(slotLog) : slotLog[i] = i % gNumFrameResources

\* Four frames or more have started and at least one of them blocked.
C3_Witness ==
  /\ Len(slotLog) >= 4
  /\ blockedFrames /= {}
  /\ SubSeq(slotLog, 1, 4) = <<1, 2, 0, 1>>

\* C4: Update goes to sleep exactly when the selected slot's stamp is nonzero
\* and the completed value is below it (otherwise it goes on without a wait);
\* the first use of each slot never waits; no other step of the frame can be
\* held up, and the sleeping thread can go on exactly when the completed value
\* has reached the stamp.
C4_BlocksIff ==
  /\ [][ (pc = "Check" /\ pc' \notin {"Check", "Terminated"})
           => ((pc' = "Wait") <=>
                 (Fence[mCurrFrameResource] /= 0
                    /\ completedValue < Fence[mCurrFrameResource])) ]_vars
  /\ [] (\A k \in blockedFrames : k > gNumFrameResources)
  /\ [] ((pc \notin ({"Idle", "Wait"} \cup HaltPCs)) => ENABLED CPUNext)
  /\ [] ((pc = "Idle" /\ frameCount < MaxFrames) => ENABLED CPUNext)
  /\ [] ((pc = "Wait") => (ENABLED CPUNext <=> completedValue >= waitTarget))

\* One frame blocked on a reused slot and a later frame reused a slot
\* without blocking.
C4_Witness ==
  /\ pc = "Animate"
  /\ CurFrame > gNumFrameResources
  /\ CurFrame \notin blockedFrames
  /\ blockedFrames /= {}
  /\ Fence[mCurrFrameResource] /= 0

\* Frames handed to the queue (ExecuteCommandLists done).
NumSubmitted == Cardinality({i \in 1 .. Len(cmdQueue) : cmdQueue[i].type = "exec"})

\* Submitted frames whose fence value has not completed (a frame between
\* ExecuteCommandLists and its stamp has no completed fence value yet).
InFlight ==
  {j \in 1 .. NumSubmitted : j > Len(stamps) \/ stamps[j] > completedValue}

\* The fence has not moved since Initialize.
GpuStalled == stamps /= <<>> /\ completedValue < stamps[1]

\* C5 (as stated): with three frames submitted and the completed value
\* standing still, no frame of the first three blocks and the fourth
\* acquisition blocks, is the wrap to slot 0, and waits for slot 0's stamp.
C5_Original ==
  /\ \A k \in blockedFrames : k > gNumFrameResources
  /\ (CurFrame = gNumFrameResources + 1 /\ pc = "Wait")
       => (mCurrFrameResource = 0 /\ waitTarget = Fence[0])

\* C5 (amended): with three frames submitted and the completed value standing
\* still, no frame of the first three blocks; the fourth acquisition, the wrap
\* to slot 1 (the slot of the first frame), does not go on to the updates; it
\* sleeps on the stamp of that slot, which is the first frame's fence value,
\* leaves the wait only when the completed value has reached that stamp, and
\* can leave it as soon as it has.
C5_FourthAcquireBlocks ==
  /\ [] (\A k \in blockedFrames : k > gNumFrameResources)
  /\ [][ (pc = "Check" /\ CurFrame = gNumFrameResources + 1 /\ GpuStalled
            /\ pc' /= "Check")
           => (pc' /= "Animate" /\ mCurrFrameResource = 1) ]_vars
  /\ [] ((pc = "Wait" /\ CurFrame = gNumFrameResources + 1)
           => (/\ mCurrFrameResource = 1
               /\ waitTarget = Fence[1]
               /\ waitTarget = stamps[1]))
  /\ [][ (pc = "Wait" /\ pc' /= "Wait")
           => (completedValue >= waitTarget /\ pc' = "Animate") ]_vars
  /\ [] ((pc = "Wait") => (ENABLED WaitDone <=> completedValue >= waitTarget))

\* The fourth frame went to sleep while the fence stood still, the fence was
\* then signalled up to the stamp and the frame went on.
C5_Witness ==
  /\ CurFrame = gNumFrameResources + 1
  /\ CurFrame \in blockedFrames
  /\ pc = "Animate"
  /\ completedValue = stamps[1]
  /\ blockedFrames = {gNumFrameResources + 1}

\* C6: the CPU goes to sleep in Update of frame k only if frame k-N is still
\* unretired; while it updates or records a frame at most N-1 earlier frames
\* are submitted and unretired; at most N submitted frames are unretired in
\* any state.
C6_RunAhead ==
  /\ [][ (pc = "Check" /\ pc' = "Wait")
           => (/\ CurFrame > gNumFrameResources
               /\ (CurFrame - gNumFrameResources) \in InFlight
               /\ waitTarget' = stamps[CurFrame - gNumFrameResources]) ]_vars
  /\ [] (pc \in WritePCs => Cardinality(InFlight) <= gNumFrameResources - 1)
  /\ [] (Cardinality(InFlight) <= gNumFrameResources)

\* The CPU updates the third frame, without having blocked, while the two
\* frames before it are submitted and unretired.
C6_Witness ==
  /\ pc \in WritePCs
  /\ CurFrame = gNumFrameResources
  /\ blockedFrames = {}
  /\ Cardinality(InFlight) = gNumFrameResources - 1

\* C7: mCurrentFence changes only in Draw's stamp, by exactly 1, once per
\* Draw; the values stamped on successive frames are consecutive integers.
C7_FenceConsecutive ==
  /\ [][ (mCurrentFence' /= mCurrentFence)
           => (pc = "Stamp" /\ mCurrentFence' = mCurrentFence + 1) ]_vars
  /\ [] (Len(stamps) = frameCount + (IF pc = "Signal" THEN 1 ELSE 0))
  /\ [] (\A i \in 1 .. (Len(stamps) - 1) : stamps[i + 1] = stamps[i] + 1)
  /\ [] (stamps /= <<>> => stamps[Len(stamps)] = mCurrentFence)

\* Four frames have been stamped.
C7_Witness ==
  /\ Len(stamps) = 4
  /\ pc = "Signal"
  /\ stamps[4] = stamps[1] + 3

\* C8: when Draw returns the current slot's stamp is the value allocated in
\* that Draw, the queue holds the frame's command list followed by the Signal
\* of that very value; the stamp is written after ExecuteCommandLists; so for
\* a slot whose stamp the fence has reached the GPU has no unfinished command
\* list (the slot being submitted right now excepted until it is stamped).
C8_StampMatchesSignal ==
  /\ [] ((pc = "Idle" /\ frameCount > 0)
           => (/\ Fence[mCurrFrameResource] = mCurrentFence
               /\ Len(cmdQueue) >= 2
               /\ cmdQueue[Len(cmdQueue)] =
                    [type |-> "signal", slot |-> mCurrFrameResource,
                     value |-> Fence[mCurrFrameResource]]
               /\ cmdQueue[Len(cmdQueue) - 1] =
                    [type |-> "exec", slot |-> mCurrFrameResource, value |-> 0]))
  /\ [][ (Fence' /= Fence)
           => (/\ cmdQueue /= <<>>
               /\ cmdQueue[Len(cmdQueue)].type = "exec"
               /\ cmdQueue[Len(cmdQueue)].slot = mCurrFrameResource
               /\ Fence'[mCurrFrameResource] = mCurrentFence') ]_vars
  /\ [] (\A s \in Slots :
           (Fence[s] /= 0 /\ completedValue >= Fence[s]
              /\ ~(s = mCurrFrameResource /\ pc \in {"Stamp", "DrawTerminated"}))
             => ~GpuUses(s))

\* Draw has returned, the GPU has signalled the frame's value and a slot
\* submitted earlier is retired.
C8_Witness ==
  /\ pc = "Idle"
  /\ frameCount >= 2
  /\ completedValue = Fence[mCurrFrameResource]
  /\ gpuPos = Len(cmdQueue)

\* C9: NumFramesDirty of every render item and of every material is always
\* in 0..N.
C9_DirtyRange ==
  /\ \A e \in RItems : ritemNumFramesDirty[e] \in 0 .. gNumFrameResources
  /\ \A m \in Mats : matNumFramesDirty[m] \in 0 .. gNumFrameResources

\* The water material has been marked again while still dirty, and the render
\* items have counted down to 0.
C9_Witness ==
  /\ pc = "ObjectCBs"
  /\ frameCount >= gNumFrameResources
  /\ matNumFramesDirty[WaterMat] = gNumFrameResources
  /\ \A e \in RItems : ritemNumFramesDirty[e] = 0

\* Frames whose UpdateObjectCBs / UpdateMaterialCBs has run.
ObjPasses ==
  IF pc \in {"Check", "Wait", "Terminated", "HRFailed", "Animate", "ObjectCBs"}
    THEN CurFrame - 1 ELSE CurFrame
MatPasses ==
  IF pc \in {"Check", "Wait", "Terminated", "HRFailed", "Animate", "ObjectCBs",
             "MaterialCBs"}
    THEN CurFrame - 1 ELSE CurFrame

\* Materials marked once (at construction) and never again.
StaticMats == Mats \ {WaterMat}

\* The first n entries of the slot order f(1), f(2), ...
SlotPrefix(f(_), n) == [i \in 1 .. n |-> f(i)]
FromSlot0(i) == (i - 1) % gNumFrameResources
FromSlot1(i) == i % gNumFrameResources

\* C10 (as stated): an entity marked once is written once per frame in the
\* next N frames, into slot 0, then slot 1, then slot 2; then its counter is
\* 0, every slot holds its data and no further write is made.
C10_Original ==
  /\ \A e \in RItems :
       /\ objWrites[e] = SlotPrefix(FromSlot0, Min(ObjPasses, gNumFrameResources))
       /\ ritemNumFramesDirty[e] = gNumFrameResources - Len(objWrites[e])
  /\ \A m \in StaticMats :
       /\ matWrites[m] = SlotPrefix(FromSlot0, Min(MatPasses, gNumFrameResources))
       /\ matNumFramesDirty[m] = gNumFrameResources - Len(matWrites[m])

\* C10 (amended): an entity marked once (every render item and every material
\* but water, marked at construction) is written once per frame in the next N
\* frames, into slot 1, then slot 2, then slot 0; its counter goes down by one
\* with each write; after the N frames the counter is 0 and every slot holds
\* the constants derived from the entity; no write is made in later frames.
C10_SinglePropagation ==
  /\ \A e \in RItems :
       /\ objWrites[e] = SlotPrefix(FromSlot1, Min(ObjPasses, gNumFrameResources))
       /\ ritemNumFramesDirty[e] = gNumFrameResources - Len(objWrites[e])
       /\ ObjPasses >= gNumFrameResources =>
            \A s \in Slots : objectCB[s][ObjCBIndex(e)] = ObjectConstants(e)
  /\ \A m \in StaticMats :
       /\ matWrites[m] = SlotPrefix(FromSlot1, Min(MatPasses, gNumFrameResources))
       /\ matNumFramesDirty[m] = gNumFrameResources - Len(matWrites[m])
       /\ MatPasses >= gNumFrameResources =>
            \A s \in Slots :
              materialCB[s][MatCBIndex(m)] = MaterialConstants(MatTransform, m)

\* The fourth frame's per-entity updates have run: three writes, counter 0.
C10_Witness ==
  /\ pc = "PassCB"
  /\ CurFrame = gNumFrameResources + 1
  /\ \A e \in RItems : objWrites[e] = <<1, 2, 0>> /\ ritemNumFramesDirty[e] = 0
  /\ \A m \in StaticMats : matWrites[m] = <<1, 2, 0>> /\ matNumFramesDirty[m] = 0

\* C11: an entity whose NumFramesDirty is 0 has, in every one of the N slots,
\* a copy equal to the constants derived from its present state (a render
\* item's World and TexTransform, a material's MatTransform); so no entity is
\* clean while a slot holds older data.  It holds in every state, frame
\* boundaries included.
C11_CleanMeansAllSlotsCurrent ==
  /\ \A e \in RItems :
       ritemNumFramesDirty[e] = 0 =>
         \A s \in Slots : objectCB[s][ObjCBIndex(e)] = ObjectConstants(e)
  /\ \A m \in Mats :
       matNumFramesDirty[m] = 0 =>
         \A s \in Slots :
           materialCB[s][MatCBIndex(m)] = MaterialConstants(MatTransform, m)

\* A frame boundary at which the render items and the static materials are
\* clean, after the water material has been animated in every frame.
C11_Witness ==
  /\ pc = "Idle"
  /\ frameCount = gNumFrameResources
  /\ \A e \in RItems : ritemNumFramesDirty[e] = 0
  /\ \A m \in StaticMats : matNumFramesDirty[m] = 0
  /\ matNumFramesDirty[WaterMat] > 0

\* Writes of material m since it was marked last.
WritesSinceMark(m) == Len(matWrites[m]) - markLog[m]

\* C12: the marking of AnimateMaterials sets the water material's
\* NumFramesDirty to exactly N whatever it was (N when it is marked a second
\* time before the frame's UpdateMaterialCBs, N-1 in later frames) and touches
\* no other counter; no other step raises a counter; the number of writes of an
\* entity since its last marking is N minus its counter, so a marked entity is
\* written in the N update passes that follow the last marking, once in each,
\* and not again after that.
C12_MarkSetsN ==
  /\ [][ (pc = "Animate" /\ pc' /= "Animate")
           => (/\ matNumFramesDirty'[WaterMat] = gNumFrameResources
               /\ \A m \in StaticMats : matNumFramesDirty'[m] = matNumFramesDirty[m]
               /\ ritemNumFramesDirty' = ritemNumFramesDirty) ]_vars
  /\ [][ \A m \in Mats :
           matNumFramesDirty'[m] > matNumFramesDirty[m]
             => (pc = "Animate" /\ m = WaterMat) ]_vars
  /\ [][ \A e \in RItems : ritemNumFramesDirty'[e] <= ritemNumFramesDirty[e] ]_vars
  /\ [] (\A m \in Mats :
           /\ WritesSinceMark(m) \in 0 .. gNumFrameResources
           /\ matNumFramesDirty[m] = gNumFrameResources - WritesSinceMark(m))
  /\ [] (\A e \in RItems :
           ritemNumFramesDirty[e] = gNumFrameResources - Len(objWrites[e]))
  /\ [][ \A m \in Mats :
           Len(matWrites'[m]) = Len(matWrites[m])
             + (IF pc = "MaterialCBs" /\ pc' = "PassCB" /\ matNumFramesDirty[m] > 0
                  THEN 1 ELSE 0) ]_vars

\* The water material, written once since its last marking and so at N-1, has
\* been marked again; the entities marked only at construction have had their
\* N writes.
C12_Witness ==
  /\ pc = "ObjectCBs"
  /\ CurFrame = gNumFrameResources + 1
  /\ matNumFramesDirty[WaterMat] = gNumFrameResources
  /\ markLog[WaterMat] = gNumFrameResources
  /\ \A m \in StaticMats :
       matNumFramesDirty[m] = 0 /\ WritesSinceMark(m) = gNumFrameResources

\* C13: the step of UpdateObjectCBs (UpdateMaterialCBs) makes, for each
\* entity whose NumFramesDirty is above 0, exactly one write, into the current
\* slot at the entity's ObjCBIndex (MatCBIndex), of the constants derived from
\* the entity, and lowers its counter by exactly 1; the other slots' regions
\* and the buffers of the other kind stay as they were.
C13_OneWritePerDirtyEntity ==
  /\ [][ (pc = "ObjectCBs" /\ pc' = "MaterialCBs") =>
           /\ \A e \in RItems : ritemNumFramesDirty[e] > 0 =>
                /\ objWrites'[e] = Append(objWrites[e], mCurrFrameResource)
                /\ objectCB'[mCurrFrameResource][ObjCBIndex(e)] = ObjectConstants(e)
                /\ ritemNumFramesDirty'[e] = ritemNumFramesDirty[e] - 1
           /\ \A e \in RItems : ritemNumFramesDirty[e] = 0 =>
                objectCB'[mCurrFrameResource][ObjCBIndex(e)]
                  = objectCB[mCurrFrameResource][ObjCBIndex(e)]
           /\ \A s \in Slots \ {mCurrFrameResource} : objectCB'[s] = objectCB[s]
           /\ materialCB' = materialCB
           /\ matNumFramesDirty' = matNumFramesDirty ]_vars
  /\ [][ (pc = "MaterialCBs" /\ pc' = "PassCB") =>
           /\ \A m \in Mats : matNumFramesDirty[m] > 0 =>
                /\ matWrites'[m] = Append(matWrites[m], mCurrFrameResource)
                /\ materialCB'[mCurrFrameResource][MatCBIndex(m)]
                     = MaterialConstants(MatTransform, m)
                /\ matNumFramesDirty'[m] = matNumFramesDirty[m] - 1
           /\ \A m \in Mats : matNumFramesDirty[m] = 0 =>
                materialCB'[mCurrFrameResource][MatCBIndex(m)]
                  = materialCB[mCurrFrameResource][MatCBIndex(m)]
           /\ \A s \in Slots \ {mCurrFrameResource} : materialCB'[s] = materialCB[s]
           /\ objectCB' = objectCB
           /\ ritemNumFramesDirty' = ritemNumFramesDirty ]_vars

\* The second frame's updates have run: slot 2 holds every entity's constants,
\* slot 1 those of the first frame, slot 0 has not been written.
C13_Witness ==
  /\ pc = "PassCB"
  /\ CurFrame = 2
  /\ mCurrFrameResource = 2
  /\ \A e \in RItems :
       /\ objWrites[e] = <<1, 2>>
       /\ objectCB[2][ObjCBIndex(e)] = ObjectConstants(e)
       /\ objectCB[0][ObjCBIndex(e)] = Unwritten
       /\ ritemNumFramesDirty[e] = gNumFrameResources - 2
  /\ materialCB[2][WaterMat] = MaterialConstants(MatTransform, WaterMat)
  /\ materialCB[1][WaterMat] /= materialCB[2][WaterMat]
  /\ materialCB[0][WaterMat] = Unwritten

\* C14: an entity whose NumFramesDirty is 0 when UpdateObjectCBs
\* (UpdateMaterialCBs) runs is skipped: the step issues no CopyData for it, its
\* region is the same in every slot after the step, and its counter is still 0.
C14_CleanEntitySkipped ==
  /\ [][ (pc = "ObjectCBs" /\ pc' /= "ObjectCBs") =>
           \A e \in RItems : ritemNumFramesDirty[e] = 0 =>
             /\ objWrites'[e] = objWrites[e]
             /\ \A s \in Slots :
                  objectCB'[s][ObjCBIndex(e)] = objectCB[s][ObjCBIndex(e)]
             /\ ritemNumFramesDirty'[e] = 0 ]_vars
  /\ [][ (pc = "MaterialCBs" /\ pc' /= "MaterialCBs") =>
           \A m \in Mats : matNumFramesDirty[m] = 0 =>
             /\ matWrites'[m] = matWrites[m]
             /\ \A s \in Slots :
                  materialCB'[s][MatCBIndex(m)] = materialCB[s][MatCBIndex(m)]
             /\ matNumFramesDirty'[m] = 0 ]_vars

\* The fifth frame's updates have run; the entities that were clean in the
\* fourth and fifth frames still have three writes, the water material has
\* five.
C14_Witness ==
  /\ pc = "PassCB"
  /\ CurFrame = gNumFrameResources + 2
  /\ \A e \in RItems :
       Len(objWrites[e]) = gNumFrameResources /\ ritemNumFramesDirty[e] = 0
  /\ \A m \in StaticMats :
       Len(matWrites[m]) = gNumFrameResources /\ matNumFramesDirty[m] = 0
  /\ Len(matWrites[WaterMat]) = gNumFrameResources + 2

\* Positions inside Draw.
DrawPCs == {"Record", "Execute", "Stamp", "Signal"}

\* C15: no step of Draw waits for the GPU: each can be taken whatever the
\* fence's completed value is, none of them moves the completed value or the
\* GPU's position in the queue, and when Draw returns the Signal of the frame's
\* stamp is the last entry of the queue, not yet executed, so the completed
\* value is below the stamp.  (That the next Update starts in such a state is
\* the witness.)
C15_DrawDoesNotWait ==
  /\ [] (pc \in DrawPCs => ENABLED CPUNext)
  /\ [][ (pc \in DrawPCs /\ pc' /= pc)
           => (completedValue' = completedValue /\ gpuPos' = gpuPos) ]_vars
  /\ [][ (pc = "Signal" /\ pc' = "Idle")
           => (/\ completedValue' < Fence'[mCurrFrameResource]
               /\ gpuPos' < Len(cmdQueue')
               /\ cmdQueue'[Len(cmdQueue')].type = "signal"
               /\ cmdQueue'[Len(cmdQueue')].value = Fence'[mCurrFrameResource]) ]_vars

\* Draw of frame 2 has returned and Update of frame 3 has started while the
\* GPU has finished nothing: the completed value is below the stamps of frames
\* 1 and 2.
C15_Witness ==
  /\ pc = "Check"
  /\ CurFrame = 3
  /\ frameCount = 2
  /\ completedValue < stamps[1]
  /\ completedValue < stamps[2]
  /\ gpuPos = 0

\* C16: the members of the application (the frame resources and the other
\* GPU-owned buffers) are released only after the destructor's wait: in a
\* state after the release the fence's completed value has reached the stamp
\* of every slot and the GPU has no unfinished command list of any slot; until
\* then the destructor stays in its wait, and it leaves the wait once the
\* fence is there.
C16_ShutdownDrains ==
  /\ [] (pc \in {"Released", "HRFailed", "DrawHRFailed"}
           => \A s \in Slots : completedValue >= Fence[s] /\ ~GpuUses(s))
  /\ [][ (pc \in {"Exit", "Terminated", "DrawTerminated"} /\ pc' /= pc)
           => (/\ pc' \in {"Released", "HRFailed", "DrawHRFailed"}
               /\ \A s \in Slots : completedValue >= Fence[s] /\ ~GpuUses(s)) ]_vars
  /\ [] (pc \in {"Exit", "Terminated", "DrawTerminated"}
           => (ENABLED Destructor <=>
                 \A s \in Slots : completedValue >= Fence[s] /\ ~GpuUses(s)))

\* The window was closed after a frame that had to wait for its slot; all
\* three slots carry stamps and the application has been released.
C16_Witness ==
  /\ pc = "Released"
  /\ frameCount > gNumFrameResources
  /\ blockedFrames /= {}
  /\ \A s \in Slots : Fence[s] /= 0 /\ completedValue >= Fence[s]
  /\ gpuPos = Len(cmdQueue)

\* C17 (as stated): a fence wait of Update that fails is fatal.  When the
\* thread leaves the wait of line 252 although the fence has not reached the
\* target (the wait reported an error), the frame does not go on to the
\* updates; after a failed SetEventOnCompletion or a failed wait no buffer of
\* any slot is written, nothing is recorded or submitted, the wait is not
\* entered again, and the process ends in the handler of lines 171-175.
C17_WaitFailureFatal ==
  /\ [][ (pc = "Wait" /\ pc' /= "Wait" /\ completedValue < waitTarget)
           => pc' = "Terminated" ]_vars
  /\ [][ (pc \in {"Terminated", "HRFailed"})
           => (/\ pc' \in {"Terminated", "HRFailed"}
               /\ bufVars' = bufVars
               /\ mCommandList' = mCommandList
               /\ cmdQueue' = cmdQueue
               /\ Fence' = Fence) ]_vars
  /\ [] (pc \in WritePCs
           => (Fence[mCurrFrameResource] = 0
                 \/ Fence[mCurrFrameResource] <= completedValue))

\* Elements provisioned for the object and material regions of the current
\* slot (the counts given to FrameResource in BuildFrameResources).
ObjCount == Cardinality(DOMAIN objectCB[mCurrFrameResource])
MatCount == Cardinality(DOMAIN materialCB[mCurrFrameResource])

MainPassCB == [TotalTime |-> totalTime, DeltaTime |-> deltaTime]

\* C19: the step of UpdateMainPassCB always writes the frame's pass block into
\* the current slot's PassCB (element 0, its only element), whatever the slot
\* held, and leaves the other slots' PassCB alone; PassCB changes in no other
\* step; the step comes after the frame's UpdateMaterialCBs (which follows
\* UpdateObjectCBs) and before recording; the command list recorded by Draw
\* binds the pass block of the current slot, which from the write to the end
\* of Draw holds the block of this very frame.
C19_PassCBEveryFrame ==
  /\ [][ (pc = "PassCB" /\ pc' /= pc)
           => (/\ passCB'[mCurrFrameResource] = MainPassCB
               /\ \A s \in Slots \ {mCurrFrameResource} : passCB'[s] = passCB[s]
               /\ pc' = "Waves") ]_vars
  /\ [][ (passCB' /= passCB) => pc = "PassCB" ]_vars
  /\ [][ (pc' = "PassCB" /\ pc /= "PassCB")
           => (/\ pc = "MaterialCBs"
               /\ MatPasses' = CurFrame /\ ObjPasses' = CurFrame) ]_vars
  /\ [] (pc \in ({"Waves"} \cup DrawPCs) => passCB[mCurrFrameResource] = MainPassCB)
  /\ [] (pc \in {"Execute", "Stamp", "Signal"}
           => mCommandList[1] = [cmd |-> "SetPassCBV", slot |-> mCurrFrameResource,
                                 entry |-> 0])

\* The fourth frame has been recorded on slot 1: the slot's pass block, written
\* in the first frame, has been replaced by the fourth frame's, and the command
\* list binds it.
C19_Witness ==
  /\ pc = "Execute"
  /\ CurFrame = gNumFrameResources + 1
  /\ mCurrFrameResource = 1
  /\ passCB[1] = MainPassCB
  /\ passCB[1].TotalTime > passCB[0].TotalTime
  /\ mCommandList[1].slot = 1

\* The order of the steps: Update (ring advance, fence test, wait, the five
\* update calls), Draw (record, execute, stamp, signal); a frame is left only
\* by an exception of a failing Direct3D call; Run returns only between frames.
StepOrder ==
  {<<"Idle", "Check">>, <<"Check", "Wait">>, <<"Check", "Animate">>,
   <<"Wait", "Animate">>, <<"Animate", "ObjectCBs">>,
   <<"ObjectCBs", "MaterialCBs">>, <<"MaterialCBs", "PassCB">>,
   <<"PassCB", "Waves">>, <<"Waves", "Record">>, <<"Record", "Execute">>,
   <<"Execute", "Stamp">>, <<"Stamp", "Signal">>, <<"Signal", "Idle">>,
   <<"Check", "Terminated">>, <<"Terminated", "HRFailed">>,
   <<"Record", "DrawTerminated">>, <<"Execute", "DrawTerminated">>,
   <<"DrawTerminated", "DrawHRFailed">>,
   <<"Idle", "Exit">>, <<"Exit", "Released">>}

\* C20: the CPU's position moves only along the fixed order of steps, each
\* step doing its own work: the ring advances when Update starts; a frame
\* that must wait reaches the updates only through the wait; the dirty marking
\* is done by AnimateMaterials and by no later step of the frame; the
\* per-entity uploads, the pass block and the waves follow, then recording,
\* ExecuteCommandLists, the stamp and the Signal; no buffer of a slot changes
\* between the ring advance and the end of the wait.
C20_StepOrder ==
  /\ [][ pc' /= pc => <<pc, pc'>> \in StepOrder ]_vars
  /\ [][ (slotLog' /= slotLog) => (pc = "Idle" /\ pc' = "Check") ]_vars
  /\ [][ (pc = "Check" /\ pc' = "Animate")
           => ~(Fence[mCurrFrameResource] /= 0
                  /\ completedValue < Fence[mCurrFrameResource]) ]_vars
  /\ [][ (pc = "Wait" /\ pc' = "Animate") => completedValue >= waitTarget ]_vars
  /\ [][ (bufVars' /= bufVars)
           => pc \in {"ObjectCBs", "MaterialCBs", "PassCB", "Waves"} ]_vars
  /\ [][ (MatTransform' /= MatTransform
            \/ \E m \in Mats : matNumFramesDirty'[m] > matNumFramesDirty[m]
            \/ \E e \in RItems : ritemNumFramesDirty'[e] > ritemNumFramesDirty[e])
           => pc = "Animate" ]_vars
  /\ [][ (objWrites' /= objWrites) => pc = "ObjectCBs" ]_vars
  /\ [][ (matWrites' /= matWrites) => pc = "MaterialCBs" ]_vars
  /\ [][ (mCommandList' /= mCommandList) => pc = "Record" ]_vars
  /\ [][ (cmdQueue' /= cmdQueue) => pc \in {"Execute", "Signal"} ]_vars
  /\ [][ (pc = "Execute" /\ pc' /= pc)
           => cmdQueue' = Append(cmdQueue, [type |-> "exec",
                                            slot |-> mCurrFrameResource,
                                            value |-> 0]) ]_vars
  /\ [][ (Fence' /= Fence \/ mCurrentFence' /= mCurrentFence) => pc = "Stamp" ]_vars
  /\ [][ (pc = "Signal" /\ pc' /= pc)
           => cmdQueue'[Len(cmdQueue')].type = "signal" ]_vars

\* The fourth frame, which had to wait for its slot, has gone through every
\* step: four command lists and four signals are in the queue.
C20_Witness ==
  /\ pc = "Idle"
  /\ frameCount = gNumFrameResources + 1
  /\ (gNumFrameResources + 1) \in blockedFrames
  /\ Len(cmdQueue) = 2 * frameCount
  /\ Len(stamps) = frameCount
  /\ Len(matWrites[WaterMat]) = frameCount

\* The draws of the recorded command list, in order.
Draws == SelectSeq(mCommandList, LAMBDA c : c.cmd = "DrawIndexedInstanced")

\* Place of a layer in the order the claim names.
LayerRank(layer) ==
  CASE layer = "Opaque" -> 1
    [] layer = "AlphaTested" -> 2
    [] layer = "AlphaTestedTreeSprites" -> 3
    [] layer = "Transparent" -> 4

\* C21: in the command list of every recorded frame the draws come by layer
\* in the order opaque, alpha-tested, tree sprites, transparent (so every draw
\* of an opaque or alpha-tested item precedes every draw of a transparent
\* item); every render item is drawn once, in its own layer; every draw
\* references the object and material regions of the current slot, at the
\* item's ObjCBIndex and its material's MatCBIndex, and the pass block bound
\* is the current slot's.
C21_DrawOrder ==
  pc \in {"Execute", "Stamp", "Signal"} =>
    /\ \A i, j \in 1 .. Len(Draws) :
         i < j => LayerRank(Draws[i].layer) <= LayerRank(Draws[j].layer)
    /\ \A i, j \in 1 .. Len(Draws) :
         (Draws[i].layer \in {"Opaque", "AlphaTested"}
            /\ Draws[j].layer = "Transparent") => i < j
    /\ Len(Draws) = NumRitems
    /\ \A e \in RItems : \E i \in 1 .. Len(Draws) :
         Draws[i].item = e /\ Draws[i].layer = RenderLayer(e)
    /\ \A i \in 1 .. Len(Draws) :
         /\ Draws[i].objCB = [slot |-> mCurrFrameResource,
                              index |-> ObjCBIndex(Draws[i].item)]
         /\ Draws[i].matCB = [slot |-> mCurrFrameResource,
                              index |-> MatCBIndex(RitemMat(Draws[i].item))]
    /\ mCommandList[1].cmd = "SetPassCBV"
    /\ mCommandList[1].slot = mCurrFrameResource

\* The second frame has been recorded on slot 2: an opaque item first, the
\* tree sprites next, the transparent waves last.
C21_Witness ==
  /\ pc = "Execute"
  /\ CurFrame = 2
  /\ Len(Draws) >= 3
  /\ Draws[1].layer = "Opaque"
  /\ Draws[Len(Draws) - 1].layer = "AlphaTestedTreeSprites"
  /\ Draws[Len(Draws)].layer = "Transparent"
  /\ Draws[Len(Draws)].objCB.slot = 2

\* A frame has been abandoned by an exception.
Abandoned == pc \in {"Terminated", "DrawTerminated", "HRFailed", "DrawHRFailed"}

SignalPositions == {i \in 1 .. Len(cmdQueue) : cmdQueue[i].type = "signal"}
Signalled == SelectSeq(cmdQueue, LAMBDA c : c.type = "signal")

\* C23: the values given to Signal are strictly increasing along the queue;
\* every Signal entry comes right after the command list of the same frame
\* and slot, so the k-th signalled value is the stamp of the k-th submitted
\* frame; each blocking wait of Update has a target above the target of the
\* wait before it; the fence's completed value never goes down.
C23_FenceMonotone ==
  /\ [] (\A i, j \in 1 .. Len(Signalled) :
           i < j => Signalled[i].value < Signalled[j].value)
  /\ [] (\A i \in SignalPositions :
           /\ i > 1
           /\ cmdQueue[i - 1].type = "exec"
           /\ cmdQueue[i - 1].slot = cmdQueue[i].slot)
  /\ [] (\A k \in 1 .. Len(Signalled) :
           Signalled[k].value = stamps[k] /\ Signalled[k].slot = slotLog[k])
  /\ [][ (pc = "Check" /\ pc' = "Wait") => waitTarget' > waitTarget ]_vars
  /\ [][ completedValue' >= completedValue ]_vars

\* The fifth frame sleeps on the stamp of the second frame after the fourth
\* frame slept on the stamp of the first; four values have been signalled.
C23_Witness ==
  /\ pc = "Wait"
  /\ CurFrame = gNumFrameResources + 2
  /\ (gNumFrameResources + 1) \in blockedFrames
  /\ waitTarget = stamps[2]
  /\ Len(Signalled) = gNumFrameResources + 1

\* The last n values stamped on frames.
LastStamps(n) == {stamps[i] : i \in (Len(stamps) - n + 1) .. Len(stamps)}

\* C24: the stamp of a slot never goes down; a stamp written by Draw is above
\* the stamp the slot had and above the stamp of every other slot; the
\* nonzero stamps of two slots differ; once N frames have been stamped the
\* stamps of the N slots are the N values allocated last, mCurrentFence-N+1
\* to mCurrentFence.
C24_StampsIncrease ==
  /\ [][ \A s \in Slots : Fence'[s] >= Fence[s] ]_vars
  /\ [][ (Fence' /= Fence)
           => (/\ pc = "Stamp"
               /\ \A s \in Slots : Fence'[mCurrFrameResource] > Fence[s]
               /\ \A s \in Slots \ {mCurrFrameResource} : Fence'[s] = Fence[s]) ]_vars
  /\ [] (\A s, t \in Slots :
           (s /= t /\ Fence[s] /= 0 /\ Fence[t] /= 0) => Fence[s] /= Fence[t])
  /\ [] (Len(stamps) >= gNumFrameResources
           => (/\ {Fence[s] : s \in Slots} = LastStamps(gNumFrameResources)
               /\ {Fence[s] : s \in Slots}
                    = (mCurrentFence - gNumFrameResources + 1) .. mCurrentFence))

\* The fifth frame has been stamped on slot 2: its stamp replaces the second
\* frame's, the other slots carry the stamps of the third and fourth frames.
C24_Witness ==
  /\ pc = "Signal"
  /\ Len(stamps) = gNumFrameResources + 2
  /\ Fence[2] = stamps[5]
  /\ Fence[0] = stamps[3]
  /\ Fence[1] = stamps[4]
  /\ Fence[2] > stamps[2]

\* C25: while Draw records and submits a frame, the current slot holds, for
\* every render item and every material, the constants derived from the
\* entity's state as the frame's Update left it (the state does not change
\* during Draw); so the object and material regions every recorded draw
\* refers to hold the constants of the item drawn and of its material.  It
\* holds from the first frame on.
C25_CurrentSlotCurrent ==
  pc \in DrawPCs =>
    /\ \A e \in RItems :
         objectCB[mCurrFrameResource][ObjCBIndex(e)] = ObjectConstants(e)
    /\ \A m \in Mats :
         materialCB[mCurrFrameResource][MatCBIndex(m)]
           = MaterialConstants(MatTransform, m)
    /\ pc /= "Record" =>
         \A i \in 1 .. Len(Draws) :
           /\ objectCB[Draws[i].objCB.slot][Draws[i].objCB.index]
                = ObjectConstants(Draws[i].item)
           /\ materialCB[Draws[i].matCB.slot][Draws[i].matCB.index]
                = MaterialConstants(MatTransform, RitemMat(Draws[i].item))

\* The fourth frame is recorded on slot 1: the render items, clean since the
\* third frame, were not written in this frame; the water material was, and
\* slot 0 still holds its constants of the frame before.
C25_Witness ==
  /\ pc = "Execute"
  /\ CurFrame = gNumFrameResources + 1
  /\ mCurrFrameResource = 1
  /\ \A e \in RItems : ritemNumFramesDirty[e] = 0
  /\ materialCB[1][WaterMat] = MaterialConstants(MatTransform, WaterMat)
  /\ materialCB[0][WaterMat] /= materialCB[1][WaterMat]
  /\ Len(Draws) = NumRitems

\* Fence values passed to Signal so far.
SignalledValues == {cmdQueue[i].value : i \in SignalPositions}

\* C26: outside the instant between the stamp and the Signal of Draw, every
\* nonzero slot stamp has been passed to Signal on the queue; in particular
\* the stamp Update compares with the completed value and the target it sleeps
\* on have been; no slot stamp and no completed value exceeds mCurrentFence.
C26_StampsAreSignalled ==
  /\ pc /= "Signal" =>
       \A s \in Slots : Fence[s] /= 0 => Fence[s] \in SignalledValues
  /\ pc = "Signal" =>
       \A s \in Slots \ {mCurrFrameResource} :
         Fence[s] /= 0 => Fence[s] \in SignalledValues
  /\ (pc = "Check" /\ Fence[mCurrFrameResource] /= 0)
       => Fence[mCurrFrameResource] \in SignalledValues
  /\ pc = "Wait" => waitTarget \in SignalledValues
  /\ \A s \in Slots : Fence[s] <= mCurrentFence
  /\ completedValue <= mCurrentFence

\* Update sleeps on a stamp whose Signal is in the queue and has not been
\* executed.
C26_Witness ==
  /\ pc = "Wait"
  /\ completedValue < waitTarget
  /\ waitTarget = Fence[mCurrFrameResource]
  /\ \E i \in SignalPositions : i > gpuPos /\ cmdQueue[i].value = waitTarget

\* Update of some frame has returned and no later Update has reached
\* AnimateMaterials.
UpdateDone ==
  \/ pc \in (DrawPCs \cup {"DrawTerminated", "DrawHRFailed"})
  \/ (pc \in {"Idle", "Exit", "Released", "Check", "Wait", "Terminated", "HRFailed"}
        /\ CurFrame > (IF pc \in {"Idle", "Exit", "Released"} THEN 0 ELSE 1))

\* C27: the water material's NumFramesDirty is never below N-1 (so never 0):
\* it is N from AnimateMaterials to UpdateMaterialCBs and N-1 otherwise, in
\* particular when Update returns; every frame's UpdateMaterialCBs writes the
\* material into the frame's slot.
C27_WaterNeverClean ==
  /\ matNumFramesDirty[WaterMat] \in {gNumFrameResources - 1, gNumFrameResources}
  /\ UpdateDone => matNumFramesDirty[WaterMat] = gNumFrameResources - 1
  /\ pc \in {"ObjectCBs", "MaterialCBs"}
       => matNumFramesDirty[WaterMat] = gNumFrameResources
  /\ matWrites[WaterMat] = SlotPrefix(FromSlot1, MatPasses)

\* Five frames are done: the water material has been written five times, in
\* slots 1, 2, 0, 1, 2, and stands at N-1.
C27_Witness ==
  /\ pc = "Idle"
  /\ frameCount = gNumFrameResources + 2
  /\ matWrites[WaterMat] = <<1, 2, 0, 1, 2>>
  /\ matNumFramesDirty[WaterMat] = gNumFrameResources - 1

\* C28: no step raises a render item's NumFramesDirty; every render item is
\* written once in each of the first three frames, each time into a different
\* slot, so that after them it has been written into each of the 3 slots once;
\* from the fourth frame on its counter is 0 and the step of UpdateObjectCBs
\* changes no object region and adds no write.
C28_RenderItemsWrittenOnce ==
  /\ [][ \A e \in RItems : ritemNumFramesDirty'[e] <= ritemNumFramesDirty[e] ]_vars
  /\ [] (\A e \in RItems :
           /\ Len(objWrites[e]) = Min(ObjPasses, 3)
           /\ \A i, j \in 1 .. Len(objWrites[e]) :
                i /= j => objWrites[e][i] /= objWrites[e][j]
           /\ ObjPasses >= 3 =>
                {objWrites[e][i] : i \in 1 .. Len(objWrites[e])} = Slots)
  /\ [] (CurFrame >= 4 => \A e \in RItems : ritemNumFramesDirty[e] = 0)
  /\ [][ (pc = "ObjectCBs" /\ pc' /= pc /\ CurFrame >= 4)
           => (objectCB' = objectCB /\ objWrites' = objWrites) ]_vars

\* UpdateObjectCBs of the fifth frame has run without a write.
C28_Witness ==
  /\ pc = "MaterialCBs"
  /\ CurFrame = 5
  /\ \A e \in RItems : objWrites[e] = <<1, 2, 0>> /\ ritemNumFramesDirty[e] = 0
  /\ \A e \in RItems : \A s \in Slots : objectCB[s][ObjCBIndex(e)] = ObjectConstants(e)

\* The recorded draw of the waves render item.
WavesDraws == SelectSeq(Draws, LAMBDA c : ObjCBIndex(c.item) = 0)

\* C29: the step of UpdateWaves writes the frame's wave solution into the
\* current slot's WavesVB, leaves the other slots' WavesVB alone and binds the
\* waves geometry to the current slot's buffer; while it writes, the GPU has no
\* unfinished command list of that slot; the waves draw of the command list
\* recorded afterwards references the current slot's buffer, which holds the
\* solution of this frame.
C29_WavesVBCurrentSlot ==
  /\ [][ (pc = "Waves" /\ pc' /= pc)
           => (/\ wavesVB'[mCurrFrameResource] = [Solution |-> totalTime]
               /\ \A s \in Slots \ {mCurrFrameResource} : wavesVB'[s] = wavesVB[s]
               /\ wavesGeoVB' = [Slot |-> mCurrFrameResource]) ]_vars
  /\ [][ (wavesVB' /= wavesVB \/ wavesGeoVB' /= wavesGeoVB) => pc = "Waves" ]_vars
  /\ [] (pc = "Waves" => ~GpuUses(mCurrFrameResource))
  /\ [] (pc \in DrawPCs
           => (/\ wavesGeoVB = [Slot |-> mCurrFrameResource]
               /\ wavesVB[mCurrFrameResource] = [Solution |-> totalTime]))
  /\ [] (pc \in {"Execute", "Stamp", "Signal"}
           => (/\ Len(WavesDraws) = 1
               /\ WavesDraws[1].vb = [Slot |-> mCurrFrameResource]))

\* The fourth frame's waves draw references the buffer of slot 1, rewritten in
\* this frame, while the GPU has not finished the third frame, whose waves are
\* in the buffer of slot 0.
C29_Witness ==
  /\ pc = "Execute"
  /\ CurFrame = gNumFrameResources + 1
  /\ WavesDraws[1].vb = [Slot |-> 1]
  /\ wavesVB[1] = [Solution |-> totalTime]
  /\ wavesVB[0] /= wavesVB[1]
  /\ GpuUses(0)

\* The indices of a table are pairwise distinct and fill 0 .. size-1.
BijectionOntoRange(table) ==
  /\ \A i, j \in 1 .. Len(table) : i /= j => table[i] /= table[j]
  /\ {table[i] : i \in 1 .. Len(table)} = 0 .. (Len(table) - 1)

\* C30: the ObjCBIndex values of the scene's render items are pairwise
\* distinct and fill 0 .. mAllRitems.size()-1, the MatCBIndex values of its
\* materials are pairwise distinct and fill 0 .. mMaterials.size()-1 (for the
\* scene of the source and for the scene of the model); BuildFrameResources is
\* the last of the three build calls, so every slot's object and material
\* regions have as many elements as there are render items and materials; no
\* two entities share a region and the per-frame update never ends in the
\* capacity error.
C30_IndicesFillRegions ==
  /\ BijectionOntoRange(mAllRitemsObjCBIndex)
  /\ BijectionOntoRange(mMaterialsMatCBIndex)
  /\ mMaterialsMatCBIndex[2] = WaterMat
  /\ \A e, f \in RItems : e /= f => ObjCBIndex(e) /= ObjCBIndex(f)
  /\ \A m, n \in Mats : m /= n => MatCBIndex(m) /= MatCBIndex(n)
  /\ Position(InitializeOrder, "BuildFrameResources") = Len(InitializeOrder)
  /\ \A s \in Slots :
       /\ DOMAIN objectCB[s] = {ObjCBIndex(e) : e \in RItems}
       /\ DOMAIN objectCB[s] = 0 .. (Cardinality(RItems) - 1)
       /\ DOMAIN materialCB[s] = {MatCBIndex(m) : m \in Mats}
       /\ DOMAIN materialCB[s] = 0 .. (Cardinality(Mats) - 1)
  /\ pc /= "ConfigError"

\* The first frame has written every render item and every material into
\* slot 1, each into a region of its own, the last region included.
C30_Witness ==
  /\ pc = "PassCB"
  /\ CurFrame = 1
  /\ \A e \in RItems : objectCB[1][ObjCBIndex(e)] = ObjectConstants(e)
  /\ \A e, f \in RItems :
       e /= f => objectCB[1][ObjCBIndex(e)] /= objectCB[1][ObjCBIndex(f)]
  /\ objectCB[1][NumRitems - 1] /= Unwritten
  /\ materialCB[1][NumMats - 1] /= Unwritten

====
